---- MODULE Spec2Model ----
(***************************************************************************)
(* The wizard/mode controller of the IaC generator (src/src/App.tsx,       *)
(* component AppContent) together with the durable configuration store     *)
(* and the deployment record tracker it calls.                             *)
(*                                                                         *)
(* React state set by a handler becomes visible to handler closures and to *)
(* the auto-save effects at the next commit (render + effect flush), which *)
(* is the action Commit.  Handlers started by the user only run on a       *)
(* committed screen; callbacks of the workflow child may arrive several    *)
(* times before the commit.                                                *)
(*                                                                         *)
(* ResourceMonitoring, AuthModal and AuthProvider                          *)
(* (src/src/components/auth/AuthModal.tsx, src/unnamed/part_000) are       *)
(* modelled next to it, each with a specification of its own in which the  *)
(* other components stand still.                                           *)
(***************************************************************************)
EXTENDS Integers, Sequences, FiniteSets, TLC

\* ---------------------------------------------------------------- bounds
\* handlers that may run between choosing a file and FileReader.onload
MaxReadDelay == 1
\* child callbacks delivered before React commits
MaxBatch == 2
\* length of the deployment log
MaxDeployments == 2
\* intervals ResourceMonitoring creates, loads of the simulated state and
\* triggerWorkflow calls it makes
MaxIntervals == 2
MaxLoads == 2
MaxPlans == 2

\* ------------------------------------------------------------ value sets
Absent == "absent"
NoUser == "null"
None == "none"

Users == {"alice"}
DeploymentModes == {"infrastructure", "application"}
InfraTabs == {"config", "terraform", "github", "deploy"}
AppTabs == {"k8s-config", "k8s-manifest", "k8s-github", "k8s-deploy"}
MainTabs == {"infrastructure", "application", "history", "configurations"}
DeploymentStatuses == {"idle", "deploying", "success", "error"}

\* the order of the wizard steps (infraTabs / appTabs arrays)
infraTabs == <<"config", "terraform", "github", "deploy">>
appTabs == <<"k8s-config", "k8s-manifest", "k8s-github", "k8s-deploy">>

\* A configuration object is represented by the one attribute the
\* controller reads from it: the cluster name, the namespace, the repo.
DefaultTerraformConfig == "my-gke-cluster"
DefaultGitHubConfig == "repo-unset"
DefaultK8sConfig == "default"
DefaultK8sGitHubConfig == "k8s-repo-unset"
TerraformConfigs == {DefaultTerraformConfig, "prod-cluster"}
GitHubConfigs == {DefaultGitHubConfig, "acme/infra"}
K8sConfigs == {DefaultK8sConfig, "shop"}
K8sGitHubConfigs == {DefaultK8sGitHubConfig, "acme/apps"}

ClusterName(config) == config
Namespace(config) == config

\* ------------------------------------------------------- durable store
FormatVersion == "1.0"

StoreKeys == {"terraformConfig", "githubConfig", "k8sConfig", "k8sGithubConfig",
              "deploymentMode", "activeInfraTab", "activeAppTab", "lastSaved"}

EmptyStore == [k \in StoreKeys |-> Absent]

\* save(partialState): writes one logical field and stamps "last saved"
SaveField(s, key, value) == [s EXCEPT ![key] = value, !["lastSaved"] = "t"]

saveTerraformConfig(s, config) == SaveField(s, "terraformConfig", config)
saveGitHubConfig(s, config) == SaveField(s, "githubConfig", config)
saveK8sConfig(s, config) == SaveField(s, "k8sConfig", config)
saveK8sGitHubConfig(s, config) == SaveField(s, "k8sGithubConfig", config)
saveDeploymentMode(s, mode) == SaveField(s, "deploymentMode", mode)
saveActiveTab(s, infraTab, appTab) ==
    SaveField(SaveField(s, "activeInfraTab", infraTab), "activeAppTab", appTab)

OrDefault(v, d) == IF v = Absent THEN d ELSE v

\* load(): defaults for every field never saved
loadAppState(s) ==
    [terraformConfig |-> OrDefault(s["terraformConfig"], DefaultTerraformConfig),
     githubConfig    |-> OrDefault(s["githubConfig"], DefaultGitHubConfig),
     k8sConfig       |-> OrDefault(s["k8sConfig"], DefaultK8sConfig),
     k8sGithubConfig |-> OrDefault(s["k8sGithubConfig"], DefaultK8sGitHubConfig),
     deploymentMode  |-> OrDefault(s["deploymentMode"], "infrastructure"),
     activeInfraTab  |-> OrDefault(s["activeInfraTab"], "config"),
     activeAppTab    |-> OrDefault(s["activeAppTab"], "k8s-config")]

\* The in-memory "last saved" marker is kept relative to the store's
\* timestamp: "null" (never), "current" (equal to it) or "stale" (older).
getLastSavedTime(s) == IF s["lastSaved"] = Absent THEN "null" ELSE "current"

clearAppState(s) == EmptyStore

ConfigFields == {"terraformConfig", "githubConfig", "k8sConfig", "k8sGithubConfig",
                 "deploymentMode", "activeInfraTab", "activeAppTab"}

\* exportAll(): the format version plus every durable configuration field
exportConfiguration(s) ==
    [f \in ConfigFields \cup {"syntax", "version"} |->
        IF f = "syntax" THEN "json"
        ELSE IF f = "version" THEN FormatVersion
        ELSE loadAppState(s)[f]]

\* importAll(text) -> bool
importAccepts(bundle) ==
    bundle["syntax"] = "json" /\ bundle["version"] = FormatVersion

importConfiguration(s, bundle) ==
    IF importAccepts(bundle)
    THEN [k \in StoreKeys |-> IF k = "lastSaved" THEN "t" ELSE bundle[k]]
    ELSE s

\* Files a user can hand to the import: a bundle of another installation,
\* a bundle whose tab ids are unknown to this build, and rejected files.
MakeBundle(syntax, version, tf, gh, k8s, kgh, mode, itab, atab) ==
    [f \in ConfigFields \cup {"syntax", "version"} |->
        CASE f = "syntax" -> syntax
          [] f = "version" -> version
          [] f = "terraformConfig" -> tf
          [] f = "githubConfig" -> gh
          [] f = "k8sConfig" -> k8s
          [] f = "k8sGithubConfig" -> kgh
          [] f = "deploymentMode" -> mode
          [] f = "activeInfraTab" -> itab
          [] f = "activeAppTab" -> atab]

ForeignBundle ==
    MakeBundle("json", FormatVersion, "prod-cluster", "acme/infra", "shop",
               "acme/apps", "application", "github", "k8s-deploy")
OddTabBundle ==
    MakeBundle("json", FormatVersion, "prod-cluster", DefaultGitHubConfig, "shop",
               DefaultK8sGitHubConfig, "infrastructure", "monitoring", "k8s-config")
OldVersionBundle == [ForeignBundle EXCEPT !["version"] = "0.9"]
UnversionedBundle == [ForeignBundle EXCEPT !["version"] = Absent]
GarbageFile == [ForeignBundle EXCEPT !["syntax"] = "garbage"]

Files == {ForeignBundle, OddTabBundle, OldVersionBundle, UnversionedBundle, GarbageFile}

\* ------------------------------------------------------------ variables
VARIABLES
    user,                 \* useBasicAuth().user
    mainTab, deploymentMode, activeInfraTab, activeAppTab,
    terraformConfig, githubConfig, k8sConfig, k8sGithubConfig,
    deploymentStatus, lastSaved, currentDeploymentId,
    store,                \* the durable key-value store
    deployments,          \* the durable deployment log, oldest first; a record
                          \* counts the status updates applied to it
    dirty,                \* state was set since the last commit
    pendingEffects,       \* auto-save effects whose dependency changed
    closureId,            \* currentDeploymentId as the rendered handlers see it
    batch,                \* child callbacks delivered since the last commit
    trigger,              \* the workflow child's trigger: none/inflight/failed/started
    reading,              \* <<>> or the file a FileReader is reading
    download,             \* <<>> or the bundle just exported
    alertMsg,             \* the alert() shown by the last handler
    uncaught,             \* an exception has left a handler or an effect
    \* ---- ResourceMonitoring (components/auth/AuthModal.tsx 343-955)
    monGithubConfig,      \* the githubConfig prop
    monState, monError, lastUpdated, workflowRunning, workflowUrl,
    autoRefresh, refreshInterval,
    liveIntervals,        \* ids of setInterval timers not yet cleared
    intervalsMade,        \* the last interval id handed out
    effectInterval,       \* refreshInterval as the cleanup of the last
                          \* [autoRefresh] effect captured it
    effectDue,            \* autoRefresh changed since the effect last ran
    monDirty,             \* state was set since ResourceMonitoring rendered
    planCalls,            \* triggerWorkflow calls awaiting their answer
    serviceCalls,         \* triggerWorkflow calls made so far
    timerLoads,           \* loadSimulatedState calls made by an interval
    monMounted,           \* ResourceMonitoring has not been unmounted
    \* ---- AuthProvider and AuthModal (AuthModal.tsx 1-342, 956-1207, part_000)
    provider,             \* which of the two AuthProvider sources is built
    sessionUser,          \* AuthProvider's user
    lastResult,           \* what the last signUp/signIn/updateProfile call
                          \* resolved to, <<>> before the first
    modalOpen, modalMode, email, password, fullName,
    authLoading, authError, authSuccess,
    authCall,             \* <<>> or the handleSubmit awaiting the provider;
                          \* backend: the provider call reached supabase
    profile,              \* AuthProvider's profile: "null" or the id of the
                          \* user the row belongs to
    providerLoading,      \* AuthProvider's loading
    sessionCall,          \* getSession(): pending / resolved / rejected
    fetches,              \* user ids of the fetchProfile calls in flight
    profileTimers         \* user ids of the setTimeout(fetchProfile) pending

memVars == <<mainTab, deploymentMode, activeInfraTab, activeAppTab,
             terraformConfig, githubConfig, k8sConfig, k8sGithubConfig,
             deploymentStatus, lastSaved>>
trackVars == <<currentDeploymentId, deployments, closureId, batch, trigger>>
ioVars == <<reading, download, alertMsg>>
monVars == <<monGithubConfig, monState, monError, lastUpdated, workflowRunning,
             workflowUrl, autoRefresh, refreshInterval, liveIntervals,
             intervalsMade, effectInterval, effectDue, monDirty, planCalls,
             serviceCalls, timerLoads, monMounted>>
authVars == <<provider, sessionUser, lastResult, modalOpen, modalMode, email,
              password, fullName, authLoading, authError, authSuccess, authCall,
              profile, providerLoading, sessionCall, fetches, profileTimers>>
vars == <<user, memVars, store, trackVars, dirty, pendingEffects, ioVars,
          uncaught, monVars, authVars>>

\* a step of AppContent: no exception escapes, and the state of the other
\* components is theirs alone
Others == UNCHANGED <<monVars, authVars>>
AppStep == Others /\ UNCHANGED uncaught

AllEffects == {"terraformConfig", "githubConfig", "k8sConfig", "k8sGithubConfig",
               "deploymentMode", "activeTab"}

\* the seven fields of an import, in memory and in the store
Mem7 ==
    [terraformConfig |-> terraformConfig, githubConfig |-> githubConfig,
     k8sConfig |-> k8sConfig, k8sGithubConfig |-> k8sGithubConfig,
     deploymentMode |-> deploymentMode, activeInfraTab |-> activeInfraTab,
     activeAppTab |-> activeAppTab]
Store7 == [f \in ConfigFields |-> store[f]]
Of7(bundle) == [f \in ConfigFields |-> bundle[f]]

\* -------------------------------------------------------------- mounting
\* AppContent's initial state (useState initialisers) over a given store;
\* every effect runs once after the first render.
Mount(s, u) ==
    /\ user = u
    /\ store = s
    /\ mainTab = "infrastructure"
    /\ deploymentMode = loadAppState(s).deploymentMode
    /\ activeInfraTab = loadAppState(s).activeInfraTab
    /\ activeAppTab = loadAppState(s).activeAppTab
    /\ terraformConfig = loadAppState(s).terraformConfig
    /\ githubConfig = loadAppState(s).githubConfig
    /\ k8sConfig = loadAppState(s).k8sConfig
    /\ k8sGithubConfig = loadAppState(s).k8sGithubConfig
    /\ deploymentStatus = "idle"
    /\ lastSaved = getLastSavedTime(s)
    /\ currentDeploymentId = 0
    /\ closureId = 0
    /\ batch = 0
    /\ trigger = None
    /\ dirty = TRUE
    /\ pendingEffects = AllEffects
    /\ reading = <<>>
    /\ download = <<>>
    /\ alertMsg = None

\* ------------------------------------------------------ commit (React)
\* The auto-save effects in source order; each runs when its dependency
\* changed.  acc is the store and the in-memory lastSaved marker.
EffectOrder ==
    <<"terraformConfig", "githubConfig", "k8sConfig", "k8sGithubConfig",
      "deploymentMode", "activeTab">>

Older(marker) == IF marker = "null" THEN "null" ELSE "stale"

\* RunEffect with a tab effect that saves the infrastructure tab only
RunEffect_appTabNotSaved(name, acc) ==
    CASE name = "terraformConfig" ->
            [store |-> saveTerraformConfig(acc.store, terraformConfig),
             lastSaved |-> "current"]
      [] name = "githubConfig" ->
            [store |-> saveGitHubConfig(acc.store, githubConfig),
             lastSaved |-> "current"]
      [] name = "k8sConfig" ->
            [store |-> saveK8sConfig(acc.store, k8sConfig),
             lastSaved |-> "current"]
      [] name = "k8sGithubConfig" ->
            [store |-> saveK8sGitHubConfig(acc.store, k8sGithubConfig),
             lastSaved |-> "current"]
      [] name = "deploymentMode" ->
            [store |-> saveDeploymentMode(acc.store, deploymentMode),
             lastSaved |-> Older(acc.lastSaved)]
      [] name = "activeTab" ->
            [store |-> SaveField(acc.store, "activeInfraTab", activeInfraTab),
             lastSaved |-> Older(acc.lastSaved)]

RunEffect(name, acc) ==
    CASE name = "terraformConfig" ->
            [store |-> saveTerraformConfig(acc.store, terraformConfig),
             lastSaved |-> "current"]
      [] name = "githubConfig" ->
            [store |-> saveGitHubConfig(acc.store, githubConfig),
             lastSaved |-> "current"]
      [] name = "k8sConfig" ->
            [store |-> saveK8sConfig(acc.store, k8sConfig),
             lastSaved |-> "current"]
      [] name = "k8sGithubConfig" ->
            [store |-> saveK8sGitHubConfig(acc.store, k8sGithubConfig),
             lastSaved |-> "current"]
      [] name = "deploymentMode" ->
            [store |-> saveDeploymentMode(acc.store, deploymentMode),
             lastSaved |-> Older(acc.lastSaved)]
      [] name = "activeTab" ->
            [store |-> saveActiveTab(acc.store, activeInfraTab, activeAppTab),
             lastSaved |-> Older(acc.lastSaved)]

RECURSIVE RunEffects(_, _, _)
RunEffects(i, pending, acc) ==
    IF i > Len(EffectOrder) THEN acc
    ELSE RunEffects(i + 1, pending,
                    IF EffectOrder[i] \in pending
                    THEN RunEffect(EffectOrder[i], acc) ELSE acc)

Commit ==
    /\ dirty
    /\ LET after == RunEffects(1, pendingEffects,
                               [store |-> store, lastSaved |-> lastSaved])
       IN /\ store' = after.store
          /\ lastSaved' = after.lastSaved
    /\ pendingEffects' = {}
    /\ dirty' = FALSE
    /\ closureId' = currentDeploymentId
    /\ batch' = 0
    /\ UNCHANGED <<user, mainTab, deploymentMode, activeInfraTab, activeAppTab,
                   terraformConfig, githubConfig, k8sConfig, k8sGithubConfig,
                   deploymentStatus, currentDeploymentId, deployments,
                   trigger, ioVars>>
    /\ AppStep

\* ---------------------------------------------------------- user events
\* The screen behind the auth gate, committed: `if (!user) return <BasicAuth/>`
Screen == user # NoUser /\ ~dirty

\* Another handler runs while a chosen file is still being read.
Tick ==
    /\ IF reading = <<>> THEN TRUE ELSE reading[1].age < MaxReadDelay
    /\ reading' = IF reading = <<>> THEN <<>>
                  ELSE <<[reading[1] EXCEPT !.age = @ + 1]>>
    /\ download' = <<>>
    /\ alertMsg' = None

\* an effect whose dependency is a string runs only when the value differs
Changed(name, old, new) == IF old = new THEN {} ELSE {name}

handleTerraformConfigChange(config) ==
    /\ terraformConfig' = config
    /\ pendingEffects' = pendingEffects \cup {"terraformConfig"}
    /\ dirty' = TRUE
    /\ UNCHANGED <<user, mainTab, deploymentMode, activeInfraTab, activeAppTab,
                   githubConfig, k8sConfig, k8sGithubConfig, deploymentStatus,
                   lastSaved, store, trackVars>>

handleGithubConfigChange(config) ==
    /\ githubConfig' = config
    /\ pendingEffects' = pendingEffects \cup {"githubConfig"}
    /\ dirty' = TRUE
    /\ UNCHANGED <<user, mainTab, deploymentMode, activeInfraTab, activeAppTab,
                   terraformConfig, k8sConfig, k8sGithubConfig, deploymentStatus,
                   lastSaved, store, trackVars>>

handleK8sConfigChange(config) ==
    /\ k8sConfig' = config
    /\ pendingEffects' = pendingEffects \cup {"k8sConfig"}
    /\ dirty' = TRUE
    /\ UNCHANGED <<user, mainTab, deploymentMode, activeInfraTab, activeAppTab,
                   terraformConfig, githubConfig, k8sGithubConfig, deploymentStatus,
                   lastSaved, store, trackVars>>

handleK8sGithubConfigChange(config) ==
    /\ k8sGithubConfig' = config
    /\ pendingEffects' = pendingEffects \cup {"k8sGithubConfig"}
    /\ dirty' = TRUE
    /\ UNCHANGED <<user, mainTab, deploymentMode, activeInfraTab, activeAppTab,
                   terraformConfig, githubConfig, k8sConfig, deploymentStatus,
                   lastSaved, store, trackVars>>

\* handleInfraTabChange that puts the status back to idle on entering deploy
handleInfraTabChange_resetsStatus(tab) ==
    /\ activeInfraTab' = tab
    /\ deploymentStatus' = IF tab = "deploy" THEN "idle" ELSE deploymentStatus
    /\ pendingEffects' = pendingEffects \cup Changed("activeTab", activeInfraTab, tab)
    /\ dirty' = (dirty \/ tab # activeInfraTab)
    /\ UNCHANGED <<user, mainTab, deploymentMode, activeAppTab, terraformConfig,
                   githubConfig, k8sConfig, k8sGithubConfig,
                   lastSaved, store, trackVars>>

handleInfraTabChange(tab) ==
    /\ activeInfraTab' = tab
    /\ pendingEffects' = pendingEffects \cup Changed("activeTab", activeInfraTab, tab)
    /\ dirty' = (dirty \/ tab # activeInfraTab)
    /\ UNCHANGED <<user, mainTab, deploymentMode, activeAppTab, terraformConfig,
                   githubConfig, k8sConfig, k8sGithubConfig, deploymentStatus,
                   lastSaved, store, trackVars>>

\* handleAppTabChange with activeAppTab missing from the dependencies of
\* the saveActiveTab effect
handleAppTabChange_notADependency(tab) ==
    /\ activeAppTab' = tab
    /\ pendingEffects' = pendingEffects
    /\ dirty' = (dirty \/ tab # activeAppTab)
    /\ UNCHANGED <<user, mainTab, deploymentMode, activeInfraTab, terraformConfig,
                   githubConfig, k8sConfig, k8sGithubConfig, deploymentStatus,
                   lastSaved, store, trackVars>>

handleAppTabChange(tab) ==
    /\ activeAppTab' = tab
    /\ pendingEffects' = pendingEffects \cup Changed("activeTab", activeAppTab, tab)
    /\ dirty' = (dirty \/ tab # activeAppTab)
    /\ UNCHANGED <<user, mainTab, deploymentMode, activeInfraTab, terraformConfig,
                   githubConfig, k8sConfig, k8sGithubConfig, deploymentStatus,
                   lastSaved, store, trackVars>>

\* handleDeploymentModeChange that also restarts the wizard it switches to
handleDeploymentModeChange_restartsWizard(mode) ==
    /\ deploymentMode' = mode
    /\ deploymentStatus' = "idle"
    /\ mainTab' = mode
    /\ activeInfraTab' = IF mode = "infrastructure" THEN "config" ELSE activeInfraTab
    /\ activeAppTab' = IF mode = "application" THEN "k8s-config" ELSE activeAppTab
    /\ pendingEffects' = pendingEffects
                           \cup Changed("deploymentMode", deploymentMode, mode)
                           \cup Changed("activeTab", activeInfraTab, activeInfraTab')
                           \cup Changed("activeTab", activeAppTab, activeAppTab')
    /\ dirty' = TRUE
    /\ UNCHANGED <<user, terraformConfig, githubConfig, k8sConfig, k8sGithubConfig,
                   lastSaved, store, trackVars>>

handleDeploymentModeChange(mode) ==
    /\ deploymentMode' = mode
    /\ deploymentStatus' = "idle"
    /\ mainTab' = mode
    /\ pendingEffects' = pendingEffects \cup Changed("deploymentMode", deploymentMode, mode)
    /\ dirty' = (dirty \/ mode # deploymentMode \/ deploymentStatus # "idle"
                        \/ mainTab # mode)
    /\ UNCHANGED <<user, activeInfraTab, activeAppTab, terraformConfig,
                   githubConfig, k8sConfig, k8sGithubConfig,
                   lastSaved, store, trackVars>>

\* handleLoadConfiguration that shows the wizard at the tab it was left at
handleLoadConfiguration_keepsTab(config, type) ==
    /\ IF type = "infrastructure"
       THEN /\ terraformConfig' = config
            /\ mainTab' = "infrastructure"
            /\ pendingEffects' = pendingEffects \cup {"terraformConfig"}
            /\ UNCHANGED <<k8sConfig, activeAppTab, activeInfraTab>>
       ELSE /\ k8sConfig' = config
            /\ mainTab' = "application"
            /\ pendingEffects' = pendingEffects \cup {"k8sConfig"}
            /\ UNCHANGED <<terraformConfig, activeInfraTab, activeAppTab>>
    /\ dirty' = TRUE
    /\ UNCHANGED <<user, deploymentMode, githubConfig, k8sGithubConfig,
                   deploymentStatus, lastSaved, store, trackVars>>

handleLoadConfiguration(config, type) ==
    /\ IF type = "infrastructure"
       THEN /\ terraformConfig' = config
            /\ mainTab' = "infrastructure"
            /\ activeInfraTab' = "config"
            /\ pendingEffects' = pendingEffects \cup {"terraformConfig"}
                                    \cup Changed("activeTab", activeInfraTab, "config")
            /\ UNCHANGED <<k8sConfig, activeAppTab>>
       ELSE /\ k8sConfig' = config
            /\ mainTab' = "application"
            /\ activeAppTab' = "k8s-config"
            /\ pendingEffects' = pendingEffects \cup {"k8sConfig"}
                                    \cup Changed("activeTab", activeAppTab, "k8s-config")
            /\ UNCHANGED <<terraformConfig, activeInfraTab>>
    /\ dirty' = TRUE
    /\ UNCHANGED <<user, deploymentMode, githubConfig, k8sGithubConfig,
                   deploymentStatus, lastSaved, store, trackVars>>

\* ---- the wiring of the handlers into the rendered tree
MainTabClick(tab) ==
    /\ Screen /\ Tick
    /\ mainTab' = tab
    /\ dirty' = (tab # mainTab)
    /\ UNCHANGED <<user, deploymentMode, activeInfraTab, activeAppTab,
                   terraformConfig, githubConfig, k8sConfig, k8sGithubConfig,
                   deploymentStatus, lastSaved, store, trackVars, pendingEffects>>
    /\ AppStep

ModeSelectorChange(mode) ==
    /\ Screen /\ Tick
    /\ mainTab = "infrastructure"
    /\ handleDeploymentModeChange(mode)
    /\ AppStep

SubTabClick(tab) ==
    /\ Screen /\ Tick
    /\ \/ mainTab = "infrastructure" /\ tab \in InfraTabs /\ handleInfraTabChange(tab)
       \/ mainTab = "application" /\ tab \in AppTabs /\ handleAppTabChange(tab)
    /\ AppStep

Index(seq, x) == CHOOSE i \in 1..Len(seq) : seq[i] = x

OnNext ==
    /\ Screen /\ Tick
    /\ \/ /\ mainTab = "infrastructure"
          /\ activeInfraTab \in {"config", "terraform", "github"}
          /\ handleInfraTabChange(infraTabs[Index(infraTabs, activeInfraTab) + 1])
       \/ /\ mainTab = "application"
          /\ activeAppTab \in {"k8s-config", "k8s-manifest", "k8s-github"}
          /\ handleAppTabChange(appTabs[Index(appTabs, activeAppTab) + 1])
    /\ AppStep

OnBack ==
    /\ Screen /\ Tick
    /\ \/ /\ mainTab = "infrastructure"
          /\ activeInfraTab \in {"terraform", "github", "deploy"}
          /\ handleInfraTabChange(infraTabs[Index(infraTabs, activeInfraTab) - 1])
       \/ /\ mainTab = "application"
          /\ activeAppTab \in {"k8s-manifest", "k8s-github", "k8s-deploy"}
          /\ handleAppTabChange(appTabs[Index(appTabs, activeAppTab) - 1])
    /\ AppStep

FormChange ==
    /\ Screen /\ Tick
    /\ \/ /\ mainTab = "infrastructure" /\ activeInfraTab = "config"
          /\ \E c \in TerraformConfigs : handleTerraformConfigChange(c)
       \/ /\ mainTab = "infrastructure" /\ activeInfraTab = "github"
          /\ \E c \in GitHubConfigs : handleGithubConfigChange(c)
       \/ /\ mainTab = "application" /\ activeAppTab = "k8s-config"
          /\ \E c \in K8sConfigs : handleK8sConfigChange(c)
       \/ /\ mainTab = "application" /\ activeAppTab = "k8s-github"
          /\ \E c \in K8sGitHubConfigs : handleK8sGithubConfigChange(c)
    /\ AppStep

LoadSaved ==
    /\ Screen /\ Tick
    /\ mainTab = "configurations"
    /\ \/ \E c \in TerraformConfigs : handleLoadConfiguration(c, "infrastructure")
       \/ \E c \in K8sConfigs : handleLoadConfiguration(c, "application")
    /\ AppStep

\* --------------------------------------------------- export and import
handleExportConfig ==
    /\ Screen
    /\ download' = <<exportConfiguration(store)>>
    /\ alertMsg' = None
    /\ UNCHANGED <<user, memVars, store, trackVars, dirty, pendingEffects, reading>>
    /\ AppStep

\* handleImportConfig up to reader.readAsText(file).  The chosen file is
\* the bundle just exported (fromDownload) or a file of another origin,
\* whose content the program first sees in reader.onload.
handleImportConfig(fromDownload) ==
    /\ Screen
    /\ reading = <<>>
    /\ fromDownload => download # <<>>
    /\ reading' = <<[age |-> 0, file |-> IF fromDownload THEN download ELSE <<>>]>>
    /\ download' = <<>>
    /\ alertMsg' = None
    /\ UNCHANGED <<user, memVars, store, trackVars, dirty, pendingEffects>>
    /\ AppStep

\* e.target.result
Contents(read) == IF read.file = <<>> THEN Files ELSE {read.file[1]}

\* setImportedState without the two tab setters
setImportedState_skipsTabs(newState) ==
    /\ terraformConfig' = newState.terraformConfig
    /\ githubConfig' = newState.githubConfig
    /\ k8sConfig' = newState.k8sConfig
    /\ k8sGithubConfig' = newState.k8sGithubConfig
    /\ deploymentMode' = newState.deploymentMode
    /\ UNCHANGED <<activeInfraTab, activeAppTab>>
    /\ pendingEffects' =
         {"terraformConfig", "githubConfig", "k8sConfig", "k8sGithubConfig"}
         \cup Changed("deploymentMode", deploymentMode, newState.deploymentMode)
    /\ dirty' = TRUE

\* the seven setters after a successful import
setImportedState(newState) ==
    /\ terraformConfig' = newState.terraformConfig
    /\ githubConfig' = newState.githubConfig
    /\ k8sConfig' = newState.k8sConfig
    /\ k8sGithubConfig' = newState.k8sGithubConfig
    /\ deploymentMode' = newState.deploymentMode
    /\ activeInfraTab' = newState.activeInfraTab
    /\ activeAppTab' = newState.activeAppTab
    /\ pendingEffects' =
         {"terraformConfig", "githubConfig", "k8sConfig", "k8sGithubConfig"}
         \cup Changed("deploymentMode", deploymentMode, newState.deploymentMode)
         \cup Changed("activeTab", activeInfraTab, newState.activeInfraTab)
         \cup Changed("activeTab", activeAppTab, newState.activeAppTab)
    /\ dirty' = TRUE

\* importRejected that refreshes the lastSaved marker all the same
importRejected_refreshesMarker ==
    /\ alertMsg' = "failed"
    /\ lastSaved' = getLastSavedTime(store)
    /\ dirty' = TRUE
    /\ UNCHANGED <<terraformConfig, githubConfig, k8sConfig, k8sGithubConfig,
                   deploymentMode, activeInfraTab, activeAppTab,
                   pendingEffects, download>>

\* the else branch: only the failure alert
importRejected ==
    /\ alertMsg' = "failed"
    /\ UNCHANGED <<terraformConfig, githubConfig, k8sConfig, k8sGithubConfig,
                   deploymentMode, activeInfraTab, activeAppTab, lastSaved,
                   pendingEffects, dirty, download>>

\* reader.onload: runs whoever is signed in by then
ImportOnload ==
    /\ reading # <<>>
    /\ ~dirty
    /\ reading' = <<>>
    /\ \E content \in Contents(reading[1]) :
         LET imported == importConfiguration(store, content)
         IN /\ store' = imported
            /\ IF importAccepts(content)
               THEN /\ setImportedState(loadAppState(imported))
                    /\ lastSaved' = getLastSavedTime(imported)
                    /\ download' = <<>>
                    /\ alertMsg' = "imported"
               ELSE importRejected
    /\ UNCHANGED <<user, mainTab, deploymentStatus, trackVars>>
    /\ AppStep

\* ------------------------------------------------------ reset and reload
\* window.location.reload(): AppContent is constructed again over the store;
\* whether the auth provider restores the user is its own business.
Remount(s) ==
    /\ user' \in {user, NoUser}
    /\ store' = s
    /\ mainTab' = "infrastructure"
    /\ deploymentMode' = loadAppState(s).deploymentMode
    /\ activeInfraTab' = loadAppState(s).activeInfraTab
    /\ activeAppTab' = loadAppState(s).activeAppTab
    /\ terraformConfig' = loadAppState(s).terraformConfig
    /\ githubConfig' = loadAppState(s).githubConfig
    /\ k8sConfig' = loadAppState(s).k8sConfig
    /\ k8sGithubConfig' = loadAppState(s).k8sGithubConfig
    /\ deploymentStatus' = "idle"
    /\ lastSaved' = getLastSavedTime(s)
    /\ currentDeploymentId' = 0
    /\ closureId' = 0
    /\ batch' = 0
    /\ trigger' = None
    /\ dirty' = TRUE
    /\ pendingEffects' = AllEffects
    /\ reading' = <<>>
    /\ download' = <<>>
    /\ UNCHANGED deployments

handleResetConfig(confirmed) ==
    /\ Screen
    /\ IF confirmed
       THEN /\ Remount(clearAppState(store))
            /\ alertMsg' = None
       ELSE /\ alertMsg' = None
            /\ UNCHANGED <<user, memVars, store, trackVars, dirty, pendingEffects,
                           reading, download>>
    /\ AppStep

Reload ==
    /\ ~dirty
    /\ Remount(store)
    /\ alertMsg' = None
    /\ AppStep

\* ------------------------------------------------------------------ auth
handleAuthSuccess(authenticatedUser) ==
    /\ user = NoUser
    /\ ~dirty
    /\ user' = authenticatedUser
    /\ alertMsg' = None
    /\ UNCHANGED <<memVars, store, trackVars, dirty, pendingEffects, reading, download>>
    /\ AppStep

signOut ==
    /\ Screen /\ Tick
    /\ user' = NoUser
    /\ UNCHANGED <<memVars, store, trackVars, dirty, pendingEffects>>
    /\ AppStep

\* --------------------------------------------- deployment record tracker
\* recordStart: a new unique id, appended to the log, status as given
saveBasicDeployment(log, type, projectName, status) ==
    Append(log, [id |-> Len(log) + 1, deployment_type |-> type,
                 project_name |-> projectName, status |-> status, updates |-> 0])

\* updateStatus: sets the status of the record with that id, if any
updateBasicDeploymentStatus(log, id, status) ==
    [i \in DOMAIN log |->
        IF log[i].id = id
        THEN [log[i] EXCEPT !.status = status, !.updates = @ + 1]
        ELSE log[i]]

handleDeploymentStart(type, config) ==
    /\ Len(deployments) < MaxDeployments
    /\ deployments' = saveBasicDeployment(deployments, type,
                          IF type = "infrastructure" THEN ClusterName(config)
                          ELSE Namespace(config),
                          "pending")
    /\ currentDeploymentId' = Len(deployments) + 1
    /\ dirty' = TRUE
    /\ UNCHANGED <<user, memVars, store, pendingEffects, closureId>>

\* handleDeploymentStatusChange that logs a failed record when an error
\* arrives and no deployment is open
handleDeploymentStatusChange_recordsFailure(status) ==
    /\ deploymentStatus' = status
    /\ IF closureId # 0 /\ status # "idle" /\ status # "deploying"
       THEN /\ deployments' = updateBasicDeploymentStatus(deployments, closureId,
                                  IF status = "success" THEN "success" ELSE "failed")
            /\ currentDeploymentId' = 0
       ELSE IF status = "error" /\ Len(deployments) < MaxDeployments
       THEN /\ deployments' = saveBasicDeployment(deployments, deploymentMode,
                                                  "unknown", "failed")
            /\ UNCHANGED currentDeploymentId
       ELSE UNCHANGED <<deployments, currentDeploymentId>>
    /\ dirty' = TRUE
    /\ UNCHANGED <<user, mainTab, deploymentMode, activeInfraTab, activeAppTab,
                   terraformConfig, githubConfig, k8sConfig, k8sGithubConfig,
                   lastSaved, store, pendingEffects, closureId>>

\* currentDeploymentId is read from the closure of the last commit
handleDeploymentStatusChange(status) ==
    /\ deploymentStatus' = status
    /\ IF closureId # 0 /\ status # "idle" /\ status # "deploying"
       THEN /\ deployments' = updateBasicDeploymentStatus(deployments, closureId,
                                  IF status = "success" THEN "success" ELSE "failed")
            /\ currentDeploymentId' = 0
       ELSE UNCHANGED <<deployments, currentDeploymentId>>
    /\ dirty' = TRUE
    /\ UNCHANGED <<user, mainTab, deploymentMode, activeInfraTab, activeAppTab,
                   terraformConfig, githubConfig, k8sConfig, k8sGithubConfig,
                   lastSaved, store, pendingEffects, closureId>>

\* ---- the workflow child (WorkflowStatus / K8sWorkflowStatus) and its props
WorkflowMounted(type) ==
    /\ user # NoUser
    /\ \/ type = "infrastructure" /\ mainTab = "infrastructure" /\ activeInfraTab = "deploy"
       \/ type = "application" /\ mainTab = "application" /\ activeAppTab = "k8s-deploy"

Callback ==
    /\ \E type \in DeploymentModes : WorkflowMounted(type)
    /\ batch < MaxBatch
    /\ batch' = batch + 1
    /\ Tick

\* the user starts a deployment: the child reports `deploying`
TriggerClick ==
    /\ ~dirty /\ Callback
    /\ trigger' = "inflight"
    /\ handleDeploymentStatusChange("deploying")
    /\ AppStep

\* the trigger call is rejected: onDeploymentStart is never invoked
TriggerFails ==
    /\ trigger = "inflight" /\ Callback
    /\ trigger' = "failed"
    /\ handleDeploymentStatusChange("error")
    /\ AppStep

\* the trigger call succeeds: onDeploymentStart(workflowUrl)
TriggerSucceeds ==
    /\ trigger = "inflight" /\ Callback
    /\ trigger' = "started"
    /\ \/ /\ WorkflowMounted("infrastructure")
          /\ handleDeploymentStart("infrastructure", terraformConfig)
       \/ /\ WorkflowMounted("application")
          /\ handleDeploymentStart("application", k8sConfig)
    /\ AppStep

\* the poller reports a status through onStatusChange
StatusNotify(status) ==
    /\ Callback
    /\ trigger' = trigger
    /\ handleDeploymentStatusChange(status)
    /\ AppStep

\* ------------------------------------------------ store and tracker faults
\* The paths of the handlers on which a call to the tracker or to the store
\* throws.

\* saveBasicDeployment throws inside the try of handleDeploymentStart: the
\* catch logs the error, no setter has run
handleDeploymentStartCaught ==
    UNCHANGED <<user, memVars, store, currentDeploymentId, deployments,
                closureId, dirty, pendingEffects, uncaught>>

\* updateBasicDeploymentStatus throws in handleDeploymentStatusChange: the
\* status was set, setCurrentDeploymentId(null) is not reached and the
\* exception leaves the handler
handleDeploymentStatusChangeThrown(status) ==
    /\ closureId # 0 /\ status # "idle" /\ status # "deploying"
    /\ deploymentStatus' = status
    /\ dirty' = TRUE
    /\ uncaught' = TRUE
    /\ UNCHANGED <<user, mainTab, deploymentMode, activeInfraTab, activeAppTab,
                   terraformConfig, githubConfig, k8sConfig, k8sGithubConfig,
                   lastSaved, store, pendingEffects, closureId,
                   currentDeploymentId, deployments>>

\* the trigger succeeds and the tracker rejects the new record
TriggerSucceedsTrackerThrows ==
    /\ Others
    /\ trigger = "inflight" /\ Callback
    /\ trigger' = "started"
    /\ handleDeploymentStartCaught

\* the poller reports a terminal status and the tracker rejects the update
StatusNotifyTrackerThrows(status) ==
    /\ Others
    /\ Callback
    /\ trigger' = trigger
    /\ handleDeploymentStatusChangeThrown(status)

\* a commit in which the save of the first effect to run throws: nothing
\* is written and the exception leaves the effect
CommitSaveThrows ==
    /\ Others
    /\ dirty /\ pendingEffects # {}
    /\ uncaught' = TRUE
    /\ pendingEffects' = {}
    /\ dirty' = FALSE
    /\ closureId' = currentDeploymentId
    /\ batch' = 0
    /\ UNCHANGED <<user, memVars, store, currentDeploymentId, deployments,
                   trigger, ioVars>>

\* ---------------------------------------------------- ResourceMonitoring
\* The githubConfig prop: complete, without owner, without token.
CompleteGithub == [token |-> "ghp", owner |-> "acme", repo |-> "infra"]
MonitorGithubConfigs ==
    {CompleteGithub, [CompleteGithub EXCEPT !.owner = ""],
     [CompleteGithub EXCEPT !.token = ""]}

ActionsUrl(config) == <<"https://github.com", config.owner, config.repo, "actions">>

\* useState initialisers; the [autoRefresh] effect runs after the first render
MonitorMount ==
    /\ monGithubConfig \in MonitorGithubConfigs
    /\ monState = "null"
    /\ monError = ""
    /\ lastUpdated = 0
    /\ workflowRunning = FALSE
    /\ workflowUrl = <<>>
    /\ autoRefresh = FALSE
    /\ refreshInterval = 0
    /\ liveIntervals = {}
    /\ intervalsMade = 0
    /\ effectInterval = 0
    /\ effectDue = TRUE
    /\ monDirty = TRUE
    /\ planCalls = <<>>
    /\ serviceCalls = 0
    /\ timerLoads = 0
    /\ monMounted = TRUE

\* ResourceMonitoring is not on screen
MonitorAbsent ==
    /\ MonitorMount
    /\ monGithubConfig = CompleteGithub

\* ResourceMonitoring leaves AppContent and the auth components alone
MonitorOutside ==
    UNCHANGED <<user, memVars, store, trackVars, dirty, pendingEffects, ioVars,
                uncaught, authVars>>

\* a step of the mounted ResourceMonitoring
MonitorStep ==
    /\ monMounted
    /\ UNCHANGED monMounted
    /\ MonitorOutside

\* the effect whose else branch reads refreshInterval from the closure of
\* the effect that ran before it
autoRefreshEffect_staleInterval ==
    /\ IF autoRefresh
       THEN /\ liveIntervals' = (liveIntervals \ {effectInterval})
                                   \cup {intervalsMade + 1}
            /\ intervalsMade' = intervalsMade + 1
            /\ refreshInterval' = intervalsMade + 1
            /\ monDirty' = TRUE
       ELSE /\ liveIntervals' = liveIntervals \ {effectInterval}
            /\ refreshInterval' = 0
            /\ monDirty' = (effectInterval # 0)
            /\ UNCHANGED intervalsMade
    /\ effectInterval' = refreshInterval

\* useEffect(..., [autoRefresh]): the cleanup of the effect that ran before
\* (with the refreshInterval of its render), then the effect of this render
autoRefreshEffect ==
    /\ IF autoRefresh
       THEN /\ liveIntervals' = (liveIntervals \ {effectInterval})
                                   \cup {intervalsMade + 1}
            /\ intervalsMade' = intervalsMade + 1
            /\ refreshInterval' = intervalsMade + 1
            /\ monDirty' = TRUE
       ELSE /\ liveIntervals' = (liveIntervals \ {effectInterval})
                                   \ {refreshInterval}
            /\ refreshInterval' = 0
            /\ monDirty' = (refreshInterval # 0)
            /\ UNCHANGED intervalsMade
    /\ effectInterval' = refreshInterval

\* render and effect flush of ResourceMonitoring
MonitorCommit ==
    /\ monDirty
    /\ IF effectDue
       THEN autoRefreshEffect
       ELSE /\ monDirty' = FALSE
            /\ UNCHANGED <<liveIntervals, intervalsMade, refreshInterval,
                           effectInterval>>
    /\ effectDue' = FALSE
    /\ UNCHANGED <<monGithubConfig, monState, monError, lastUpdated,
                   workflowRunning, workflowUrl, autoRefresh, planCalls,
                   serviceCalls, timerLoads>>
    /\ MonitorStep

\* the parent renders ResourceMonitoring with another githubConfig
MonitorPropsChange(config) ==
    /\ ~monDirty
    /\ monGithubConfig' = config
    /\ UNCHANGED <<monState, monError, lastUpdated, workflowRunning, workflowUrl,
                   autoRefresh, refreshInterval, liveIntervals, intervalsMade,
                   effectInterval, effectDue, monDirty, planCalls, serviceCalls,
                   timerLoads>>
    /\ MonitorStep

\* onChange of the auto-refresh checkbox: setAutoRefresh(e.target.checked)
ToggleAutoRefresh ==
    /\ ~monDirty
    /\ autoRefresh \/ intervalsMade < MaxIntervals
    /\ autoRefresh' = ~autoRefresh
    /\ effectDue' = TRUE
    /\ monDirty' = TRUE
    /\ UNCHANGED <<monGithubConfig, monState, monError, lastUpdated,
                   workflowRunning, workflowUrl, refreshInterval, liveIntervals,
                   intervalsMade, effectInterval, planCalls, serviceCalls,
                   timerLoads>>
    /\ MonitorStep

loadSimulatedState ==
    /\ monState' = "loaded"
    /\ monError' = ""
    /\ lastUpdated' = lastUpdated + 1
    /\ monDirty' = TRUE

\* the Load State button
LoadStateClick ==
    /\ ~monDirty
    /\ lastUpdated < MaxLoads
    /\ loadSimulatedState
    /\ UNCHANGED <<monGithubConfig, workflowRunning, workflowUrl, autoRefresh,
                   refreshInterval, liveIntervals, intervalsMade, effectInterval,
                   effectDue, planCalls, serviceCalls, timerLoads>>
    /\ MonitorStep

\* a live interval fires
TimerFires ==
    /\ liveIntervals # {}
    /\ ~monDirty
    /\ lastUpdated < MaxLoads
    /\ loadSimulatedState
    /\ timerLoads' = timerLoads + 1
    /\ UNCHANGED <<monGithubConfig, workflowRunning, workflowUrl, autoRefresh,
                   refreshInterval, liveIntervals, intervalsMade, effectInterval,
                   effectDue, planCalls, serviceCalls>>
    /\ MonitorStep

\* triggerPlanWorkflow up to the await
triggerPlanWorkflow ==
    /\ IF monGithubConfig.token = "" \/ monGithubConfig.owner = ""
          \/ monGithubConfig.repo = ""
       THEN /\ monError' = "GitHub configuration is incomplete"
            /\ UNCHANGED <<workflowRunning, planCalls, serviceCalls>>
       ELSE /\ serviceCalls < MaxPlans
            /\ workflowRunning' = TRUE
            /\ monError' = ""
            /\ planCalls' = Append(planCalls, monGithubConfig)
            /\ serviceCalls' = serviceCalls + 1
    /\ monDirty' = TRUE
    /\ UNCHANGED <<monGithubConfig, monState, lastUpdated, workflowUrl,
                   autoRefresh, refreshInterval, liveIntervals, intervalsMade,
                   effectInterval, effectDue, timerLoads>>

\* the Run Plan button (disabled while a plan runs or without a token) and
\* the Run Real Plan button of the empty view (disabled without a token)
RunPlanClick ==
    /\ ~monDirty
    /\ monGithubConfig.token # ""
    /\ ~workflowRunning \/ monState = "null"
    /\ triggerPlanWorkflow
    /\ MonitorStep

\* the catch branch that leaves the finally block out
planRejected_staysRunning ==
    /\ monError' = "Failed to trigger workflow"
    /\ UNCHANGED <<workflowRunning, workflowUrl, monState, lastUpdated,
                   serviceCalls>>

\* catch and finally of triggerPlanWorkflow
planRejected ==
    /\ monError' = "Failed to trigger workflow"
    /\ workflowRunning' = FALSE
    /\ UNCHANGED <<workflowUrl, monState, lastUpdated, serviceCalls>>

\* githubService.triggerWorkflow rejects
PlanFails ==
    /\ planCalls # <<>>
    /\ planCalls' = Tail(planCalls)
    /\ planRejected
    /\ monDirty' = TRUE
    /\ UNCHANGED <<monGithubConfig, autoRefresh, refreshInterval, liveIntervals,
                   intervalsMade, effectInterval, effectDue, timerLoads>>
    /\ MonitorStep

\* githubService.triggerWorkflow resolves: the rest of the try block, finally
PlanSucceeds ==
    /\ planCalls # <<>>
    /\ lastUpdated < MaxLoads
    /\ planCalls' = Tail(planCalls)
    /\ workflowUrl' = ActionsUrl(Head(planCalls))
    /\ loadSimulatedState
    /\ workflowRunning' = FALSE
    /\ UNCHANGED <<monGithubConfig, autoRefresh, refreshInterval, liveIntervals,
                   intervalsMade, effectInterval, effectDue, serviceCalls,
                   timerLoads>>
    /\ MonitorStep

\* ------------------------------------------------ AuthProvider, AuthModal
Providers == {"AuthModal.tsx", "part_000"}
Emails == {"ann@acme.io", "ann@localhost", "Test@Example.com", "demo@example.com"}
FullNames == {"", "  ", "Ann"}
Passwords == {"", "secret1"}
ModalModes == {"signin", "signup", "reset"}
NoError == "null"

\* what the backend call of a provider function does
SignUpOutcomes ==
    {"ok", "throws", "email_address_invalid", "weak_password",
     "over_email_send_rate_limit", "User already registered", "server_error",
     "you can only request this after 45 seconds"}
SignInOutcomes ==
    {"ok", "throws", "email_not_confirmed", "invalid_credentials",
     "Invalid login credentials", "server_error"}
UpdateOutcomes == {"ok", "throws", "update_failed"}

\* /^[^\s@]+@[^\s@]+\.[^\s@]+$/.test(email)
emailRegexTest(mail) == mail \in {"ann@acme.io", "Test@Example.com", "demo@example.com"}
\* email.toLowerCase()
toLowerCase(mail) == IF mail = "Test@Example.com" THEN "test@example.com" ELSE mail
testEmails(prov) ==
    IF prov = "AuthModal.tsx" THEN {"test@example.com", "demo@example.com"}
    ELSE {"test@example.com"}
Trim(name) == IF name = "  " THEN "" ELSE name

\* signUp up to its backend call, with testEmails.includes(email)
signUpValidation_caseSensitive(prov, mail) ==
    IF ~emailRegexTest(mail) THEN "Please enter a valid email address"
    ELSE IF mail \in testEmails(prov) THEN "Please use a real email address"
    ELSE NoError

\* signUp up to its backend call: the message it returns without calling
\* supabase.auth.signUp, or none
signUpValidation(prov, mail) ==
    IF ~emailRegexTest(mail) THEN "Please enter a valid email address"
    ELSE IF toLowerCase(mail) \in testEmails(prov)
    THEN "Please use a real email address"
    ELSE NoError

\* a provider call resolves to { error } or, were nothing to catch it, throws
Resolved(error) == [error |-> error, thrown |-> FALSE]
Thrown == [error |-> NoError, thrown |-> TRUE]

\* signUp with the catch of its try block left out
signUp_noCatch(prov, mail, outcome) ==
    IF signUpValidation(prov, mail) # NoError
    THEN Resolved(signUpValidation(prov, mail))
    ELSE IF outcome = "throws" THEN Thrown
    ELSE IF outcome = "ok" THEN Resolved(NoError)
    ELSE IF outcome = "email_address_invalid"
    THEN Resolved("Please enter a valid email address")
    ELSE IF outcome = "weak_password" THEN Resolved("Password is too weak")
    ELSE IF prov = "AuthModal.tsx" /\ outcome = "over_email_send_rate_limit"
    THEN Resolved("Too many signup attempts. Please wait 60 seconds")
    ELSE IF prov = "AuthModal.tsx" /\ outcome = "User already registered"
    THEN Resolved("An account with this email already exists")
    ELSE Resolved(outcome)

signUp(prov, mail, outcome) ==
    IF signUpValidation(prov, mail) # NoError
    THEN Resolved(signUpValidation(prov, mail))
    ELSE IF outcome = "throws"
    THEN Resolved("An unexpected error occurred during signup")
    ELSE IF outcome = "ok" THEN Resolved(NoError)
    ELSE IF outcome = "email_address_invalid"
    THEN Resolved("Please enter a valid email address")
    ELSE IF outcome = "weak_password" THEN Resolved("Password is too weak")
    ELSE IF prov = "AuthModal.tsx" /\ outcome = "over_email_send_rate_limit"
    THEN Resolved("Too many signup attempts. Please wait 60 seconds")
    ELSE IF prov = "AuthModal.tsx" /\ outcome = "User already registered"
    THEN Resolved("An account with this email already exists")
    ELSE Resolved(outcome)

signIn(prov, outcome) ==
    IF outcome = "throws"
    THEN Resolved("An unexpected error occurred during sign in")
    ELSE IF outcome = "ok" THEN Resolved(NoError)
    ELSE IF outcome = "email_not_confirmed"
    THEN Resolved("Please check your email and click the confirmation link")
    ELSE IF outcome = "invalid_credentials"
            \/ (prov = "AuthModal.tsx" /\ outcome = "Invalid login credentials")
    THEN Resolved("Invalid email or password")
    ELSE Resolved(outcome)

updateProfile(currentUser, outcome) ==
    IF currentUser = NoUser THEN Resolved("No user logged in")
    ELSE IF outcome = "throws" THEN Resolved("Failed to update profile")
    ELSE IF outcome = "ok" THEN Resolved(NoError)
    ELSE Resolved(outcome)

\* the messages of the model that contain '60 seconds', '45 seconds' or
\* 'rate limit'
RateLimitMessages ==
    {"Too many signup attempts. Please wait 60 seconds",
     "you can only request this after 45 seconds"}

\* error.includes('60 seconds') || ... ('45 seconds') || ... ('rate limit')
isRateLimited == authError \in RateLimitMessages

\* useState initialisers of AuthProvider and of a closed AuthModal
AuthMount ==
    /\ provider \in Providers
    /\ sessionUser = NoUser
    /\ lastResult = <<>>
    /\ modalOpen = FALSE
    /\ modalMode = "signin"
    /\ email = ""
    /\ password = ""
    /\ fullName = ""
    /\ authLoading = FALSE
    /\ authError = ""
    /\ authSuccess = ""
    /\ authCall = <<>>
    /\ profile = "null"
    /\ providerLoading = TRUE
    /\ sessionCall = "pending"
    /\ fetches = {}
    /\ profileTimers = {}

\* the auth components are not on screen
AuthAbsent ==
    /\ AuthMount
    /\ provider = "AuthModal.tsx"

\* a step of AuthProvider or AuthModal leaves the other components alone
AuthStep ==
    UNCHANGED <<user, memVars, store, trackVars, dirty, pendingEffects, ioVars,
                uncaught, monVars>>

\* a step of AuthModal leaves the state of AuthProvider alone
ModalStep ==
    /\ UNCHANGED <<profile, providerLoading, sessionCall, fetches, profileTimers>>
    /\ AuthStep

\* the parent opens the modal (isOpen)
OpenModal ==
    /\ ~modalOpen
    /\ modalOpen' = TRUE
    /\ UNCHANGED <<provider, sessionUser, lastResult, modalMode, email, password, fullName,
                   authLoading, authError, authSuccess, authCall>>
    /\ ModalStep

\* onChange of the email and full name inputs
TypeEmail(mail) ==
    /\ modalOpen
    /\ email' = mail
    /\ UNCHANGED <<provider, sessionUser, lastResult, modalOpen, modalMode,
                   password, fullName, authLoading, authError, authSuccess, authCall>>
    /\ ModalStep

\* onChange of the password input, which reset mode does not show
TypePassword(pw) ==
    /\ modalOpen /\ modalMode # "reset"
    /\ password' = pw
    /\ UNCHANGED <<provider, sessionUser, lastResult, modalOpen, modalMode,
                   email, fullName, authLoading, authError, authSuccess, authCall>>
    /\ ModalStep

TypeFullName(name) ==
    /\ modalOpen /\ modalMode = "signup"
    /\ fullName' = name
    /\ UNCHANGED <<provider, sessionUser, lastResult, modalOpen, modalMode,
                   email, password, authLoading, authError, authSuccess, authCall>>
    /\ ModalStep

\* the links under the form, shown while there is no success message
switchMode(newMode) ==
    /\ modalOpen /\ authSuccess = ""
    /\ modalMode' = newMode
    /\ authError' = ""
    /\ authSuccess' = ""
    /\ UNCHANGED <<provider, sessionUser, lastResult, modalOpen, email, password, fullName,
                   authLoading, authCall>>
    /\ ModalStep

\* resetForm, setMode(initialMode), onClose()
handleClose ==
    /\ email' = ""
    /\ password' = ""
    /\ fullName' = ""
    /\ authError' = ""
    /\ authSuccess' = ""
    /\ modalMode' = "signin"
    /\ modalOpen' = FALSE

CloseClick ==
    /\ modalOpen
    /\ handleClose
    /\ UNCHANGED <<provider, sessionUser, lastResult, authLoading, authCall>>
    /\ ModalStep

\* handleSubmit behind a button that is disabled while loading only
Submit_ignoresRateLimit ==
    /\ modalOpen /\ ~authLoading
    /\ authSuccess' = ""
    /\ IF modalMode = "reset"
       THEN /\ authError' = "An unexpected error occurred"
            /\ authLoading' = FALSE
            /\ UNCHANGED authCall
       ELSE IF modalMode = "signup" /\ Trim(fullName) = ""
       THEN /\ authError' = "Full name is required"
            /\ authLoading' = FALSE
            /\ UNCHANGED authCall
       ELSE /\ authError' = ""
            /\ authLoading' = TRUE
            /\ authCall' = <<[mode |-> modalMode, email |-> email,
                               backend |-> modalMode = "signin"
                                   \/ signUpValidation(provider, email) = NoError]>>
    /\ UNCHANGED <<provider, sessionUser, lastResult, modalOpen, modalMode,
                   email, password, fullName>>
    /\ ModalStep

\* handleSubmit without setSuccess('') at its start
Submit_keepsSuccess ==
    /\ modalOpen /\ ~authLoading /\ ~isRateLimited
    /\ UNCHANGED authSuccess
    /\ IF modalMode = "reset"
       THEN /\ authError' = "An unexpected error occurred"
            /\ authLoading' = FALSE
            /\ UNCHANGED authCall
       ELSE IF modalMode = "signup" /\ Trim(fullName) = ""
       THEN /\ authError' = "Full name is required"
            /\ authLoading' = FALSE
            /\ UNCHANGED authCall
       ELSE /\ authError' = ""
            /\ authLoading' = TRUE
            /\ authCall' = <<[mode |-> modalMode, email |-> email,
                               backend |-> modalMode = "signin"
                                   \/ signUpValidation(provider, email) = NoError]>>
    /\ UNCHANGED <<provider, sessionUser, lastResult, modalOpen, modalMode,
                   email, password, fullName>>
    /\ ModalStep

\* handleSubmit up to its first await.  The context value has no
\* resetPassword, so the call in reset mode throws inside the try block.
Submit ==
    /\ modalOpen /\ ~authLoading /\ ~isRateLimited
    /\ authSuccess' = ""
    /\ IF modalMode = "reset"
       THEN /\ authError' = "An unexpected error occurred"
            /\ authLoading' = FALSE
            /\ UNCHANGED authCall
       ELSE IF modalMode = "signup" /\ Trim(fullName) = ""
       THEN /\ authError' = "Full name is required"
            /\ authLoading' = FALSE
            /\ UNCHANGED authCall
       ELSE /\ authError' = ""
            /\ authLoading' = TRUE
            /\ authCall' = <<[mode |-> modalMode, email |-> email,
                               backend |-> modalMode = "signin"
                                   \/ signUpValidation(provider, email) = NoError]>>
    /\ UNCHANGED <<provider, sessionUser, lastResult, modalOpen, modalMode,
                   email, password, fullName>>
    /\ ModalStep

\* handleSubmit that closes the modal after every call without error
SubmitSettles_closesOnSignUp(result) ==
    /\ lastResult' = <<result>>
    /\ authCall' = <<>>
    /\ authLoading' = FALSE
    /\ IF result.thrown
       THEN /\ authError' = "An unexpected error occurred"
            /\ UNCHANGED <<modalOpen, modalMode, email, password, fullName, authSuccess>>
       ELSE IF result.error # NoError
       THEN /\ authError' =
                  IF authCall[1].mode = "signin"
                     /\ result.error \in {"Invalid login credentials",
                                          "invalid_credentials"}
                  THEN "Invalid email or password. Use Forgot Password"
                  ELSE result.error
            /\ UNCHANGED <<modalOpen, modalMode, email, password, fullName, authSuccess>>
       ELSE handleClose
    /\ UNCHANGED <<provider, sessionUser>>

\* the rest of handleSubmit once the provider call has settled
SubmitSettles(result) ==
    /\ lastResult' = <<result>>
    /\ authCall' = <<>>
    /\ authLoading' = FALSE
    /\ IF result.thrown
       THEN /\ authError' = "An unexpected error occurred"
            /\ UNCHANGED <<modalOpen, modalMode, email, password, fullName, authSuccess>>
       ELSE IF result.error # NoError
       THEN /\ authError' =
                  IF authCall[1].mode = "signin"
                     /\ result.error \in {"Invalid login credentials",
                                          "invalid_credentials"}
                  THEN "Invalid email or password. Use Forgot Password"
                  ELSE result.error
            /\ UNCHANGED <<modalOpen, modalMode, email, password, fullName, authSuccess>>
       ELSE IF authCall[1].mode = "signup"
       THEN /\ authSuccess' = "Account created successfully"
            /\ UNCHANGED <<modalOpen, modalMode, email, password, fullName, authError>>
       ELSE handleClose
    /\ UNCHANGED <<provider, sessionUser>>

SubmitResolves ==
    /\ authCall # <<>>
    /\ \/ /\ authCall[1].mode = "signup"
          /\ \E outcome \in SignUpOutcomes :
                 SubmitSettles(signUp(provider, authCall[1].email, outcome))
       \/ /\ authCall[1].mode = "signin"
          /\ \E outcome \in SignInOutcomes :
                 SubmitSettles(signIn(provider, outcome))
    /\ ModalStep

\* ---- AuthProvider: session, profile and loading
AuthUsers == {"ann", "bob"}
AuthEvents == {"SIGNED_IN", "TOKEN_REFRESHED", "SIGNED_OUT"}
FetchOutcomes == {"data", "PGRST116", "error", "throws"}

\* what an AuthProvider step leaves alone: the modal and the other components
ProviderStep ==
    /\ UNCHANGED <<provider, modalOpen, modalMode, email, password, fullName, authLoading,
                   authError, authSuccess, authCall>>
    /\ AuthStep

\* supabase.auth.getSession().then(...): setUser, then fetchProfile or
\* setLoading(false)
GetSessionResolves(sessionOf) ==
    /\ sessionCall = "pending"
    /\ sessionCall' = "resolved"
    /\ sessionUser' = sessionOf
    /\ IF sessionOf # NoUser
       THEN /\ fetches' = fetches \cup {sessionOf}
            /\ UNCHANGED providerLoading
       ELSE /\ providerLoading' = FALSE
            /\ UNCHANGED fetches
    /\ UNCHANGED <<profile, profileTimers, lastResult>>
    /\ ProviderStep

\* getSession() rejects: the promise has no catch, no setter runs
GetSessionRejects ==
    /\ sessionCall = "pending"
    /\ sessionCall' = "rejected"
    /\ UNCHANGED <<sessionUser, profile, providerLoading, fetches, profileTimers,
                   lastResult>>
    /\ ProviderStep

\* the onAuthStateChange callback
AuthStateChange(event, newUser) ==
    /\ (event = "SIGNED_OUT") = (newUser = NoUser)
    /\ sessionUser' = newUser
    /\ IF newUser # NoUser
       THEN /\ IF provider = "AuthModal.tsx" /\ event = "SIGNED_IN"
               THEN /\ profileTimers' = profileTimers \cup {newUser}
                    /\ UNCHANGED fetches
               ELSE /\ fetches' = fetches \cup {newUser}
                    /\ UNCHANGED profileTimers
            /\ UNCHANGED <<profile, providerLoading>>
       ELSE /\ profile' = "null"
            /\ providerLoading' = FALSE
            /\ UNCHANGED <<fetches, profileTimers>>
    /\ UNCHANGED <<sessionCall, lastResult>>
    /\ ProviderStep

\* setTimeout(() => fetchProfile(session.user.id), 1000) is due; another
\* timer for the same user may still be pending
ProfileTimerFires(userId, more) ==
    /\ userId \in profileTimers
    /\ profileTimers' = IF more THEN profileTimers ELSE profileTimers \ {userId}
    /\ fetches' = fetches \cup {userId}
    /\ UNCHANGED <<sessionUser, profile, providerLoading, sessionCall, lastResult>>
    /\ ProviderStep

\* fetchProfile whose setLoading(false) follows setProfile(data) in the
\* try block instead of standing in a finally block
FetchProfileSettles_noFinally(userId, outcome, more) ==
    /\ userId \in fetches
    /\ fetches' = IF more THEN fetches ELSE fetches \ {userId}
    /\ profile' = IF outcome = "data" THEN userId ELSE profile
    /\ providerLoading' = IF outcome = "data" THEN FALSE ELSE providerLoading
    /\ UNCHANGED <<sessionUser, sessionCall, profileTimers, lastResult>>
    /\ ProviderStep

\* fetchProfile(userId) after its await: setProfile(data) when a row came
\* back, setLoading(false) in the finally block; another call for the same
\* user may still be in flight
FetchProfileSettles(userId, outcome, more) ==
    /\ userId \in fetches
    /\ fetches' = IF more THEN fetches ELSE fetches \ {userId}
    /\ profile' = IF outcome = "data" THEN userId ELSE profile
    /\ providerLoading' = FALSE
    /\ UNCHANGED <<sessionUser, sessionCall, profileTimers, lastResult>>
    /\ ProviderStep

\* refreshProfile: if (user) await fetchProfile(user.id)
refreshProfile ==
    fetches' = IF sessionUser # NoUser THEN fetches \cup {sessionUser} ELSE fetches

RefreshProfileCall ==
    /\ refreshProfile
    /\ UNCHANGED <<sessionUser, profile, providerLoading, sessionCall,
                   profileTimers, lastResult>>
    /\ ProviderStep

\* a consumer of the context calls updateProfile; an update without error
\* is followed by refreshProfile
UpdateProfileCall(outcome) ==
    /\ lastResult' = <<updateProfile(sessionUser, outcome)>>
    /\ IF sessionUser # NoUser /\ outcome = "ok"
       THEN refreshProfile
       ELSE UNCHANGED fetches
    /\ UNCHANGED <<sessionUser, profile, providerLoading, sessionCall,
                   profileTimers>>
    /\ ProviderStep

\* ------------------------------------------------------- specifications
Init ==
    /\ Mount(EmptyStore, NoUser)
    /\ deployments = <<>>
    /\ uncaught = FALSE
    /\ MonitorAbsent
    /\ AuthAbsent

Next ==
    \/ Commit
    \/ \E u \in Users : handleAuthSuccess(u)
    \/ signOut
    \/ \E tab \in MainTabs : MainTabClick(tab)
    \/ \E mode \in DeploymentModes : ModeSelectorChange(mode)
    \/ \E tab \in InfraTabs \cup AppTabs : SubTabClick(tab)
    \/ OnNext
    \/ OnBack
    \/ FormChange
    \/ LoadSaved
    \/ handleImportConfig(FALSE)
    \/ ImportOnload
    \/ \E confirmed \in BOOLEAN : handleResetConfig(confirmed)
    \/ Reload
    \/ \E status \in DeploymentStatuses : StatusNotify(status)

Spec == Init /\ [][Next]_vars

\* Export and re-import: the wizard is edited, its configuration exported,
\* and the exported file is the one handed to the import.
NextExport ==
    \/ Commit
    \/ \E u \in Users : handleAuthSuccess(u)
    \/ \E tab \in MainTabs : MainTabClick(tab)
    \/ \E mode \in DeploymentModes : ModeSelectorChange(mode)
    \/ \E tab \in InfraTabs \cup AppTabs : SubTabClick(tab)
    \/ FormChange
    \/ handleExportConfig
    \/ handleImportConfig(TRUE)
    \/ ImportOnload

SpecExport == Init /\ [][NextExport]_vars

\* A session resumed at the deploy step of both wizards.
DeployStore == saveActiveTab(EmptyStore, "deploy", "k8s-deploy")

InitDeploy ==
    /\ Mount(DeployStore, "alice")
    /\ deployments = <<>>
    /\ uncaught = FALSE
    /\ MonitorAbsent
    /\ AuthAbsent

NextDeploy ==
    \/ Commit
    \/ \E tab \in MainTabs : MainTabClick(tab)
    \/ \E mode \in DeploymentModes : ModeSelectorChange(mode)
    \/ TriggerClick
    \/ TriggerFails
    \/ TriggerSucceeds
    \/ \E status \in DeploymentStatuses : StatusNotify(status)

SpecDeploy == InitDeploy /\ [][NextDeploy]_vars

\* The deploy session over a tracker and a store whose calls may throw.
NextFault ==
    \/ Commit
    \/ CommitSaveThrows
    \/ \E tab \in MainTabs : MainTabClick(tab)
    \/ \E mode \in DeploymentModes : ModeSelectorChange(mode)
    \/ TriggerClick
    \/ TriggerFails
    \/ TriggerSucceeds
    \/ TriggerSucceedsTrackerThrows
    \/ \E status \in DeploymentStatuses : StatusNotify(status)
    \/ \E status \in DeploymentStatuses : StatusNotifyTrackerThrows(status)

SpecFault == InitDeploy /\ [][NextFault]_vars
\* ResourceMonitoring leaves the screen: React runs the cleanup of the
\* [autoRefresh] effect that ran last, with the refreshInterval of its render
MonitorUnmount ==
    /\ monMounted
    /\ ~monDirty
    /\ monMounted' = FALSE
    /\ liveIntervals' = liveIntervals \ {effectInterval}
    /\ UNCHANGED <<monGithubConfig, monState, monError, lastUpdated,
                   workflowRunning, workflowUrl, autoRefresh, refreshInterval,
                   intervalsMade, effectInterval, effectDue, monDirty, planCalls,
                   serviceCalls, timerLoads>>
    /\ MonitorOutside

\* an interval that outlived the component fires: loadSimulatedState runs,
\* its setters address an unmounted component and change nothing
TimerFiresUnmounted ==
    /\ ~monMounted
    /\ liveIntervals # {}
    /\ timerLoads < MaxLoads
    /\ timerLoads' = timerLoads + 1
    /\ UNCHANGED <<monGithubConfig, monState, monError, lastUpdated,
                   workflowRunning, workflowUrl, autoRefresh, refreshInterval,
                   liveIntervals, intervalsMade, effectInterval, effectDue,
                   monDirty, planCalls, serviceCalls, monMounted>>
    /\ MonitorOutside

\* ResourceMonitoring on its own
InitMonitor ==
    /\ Mount(EmptyStore, NoUser)
    /\ deployments = <<>>
    /\ uncaught = FALSE
    /\ MonitorMount
    /\ AuthAbsent

NextMonitor ==
    \/ MonitorCommit
    \/ \E config \in MonitorGithubConfigs : MonitorPropsChange(config)
    \/ ToggleAutoRefresh
    \/ LoadStateClick
    \/ TimerFires
    \/ RunPlanClick
    \/ PlanFails
    \/ PlanSucceeds
    \/ MonitorUnmount
    \/ TimerFiresUnmounted

SpecMonitor == InitMonitor /\ [][NextMonitor]_vars

\* AuthProvider and AuthModal on their own
InitAuth ==
    /\ Mount(EmptyStore, NoUser)
    /\ deployments = <<>>
    /\ uncaught = FALSE
    /\ MonitorAbsent
    /\ AuthMount

NextAuth ==
    \/ OpenModal
    \/ \E mail \in Emails : TypeEmail(mail)
    \/ \E pw \in Passwords : TypePassword(pw)
    \/ \E name \in FullNames : TypeFullName(name)
    \/ \E newMode \in ModalModes : switchMode(newMode)
    \/ CloseClick
    \/ Submit
    \/ SubmitResolves
    \/ \E event \in {"TOKEN_REFRESHED", "SIGNED_OUT"}, newUser \in {NoUser, "ann"} :
           AuthStateChange(event, newUser)
    \/ \E outcome \in UpdateOutcomes : UpdateProfileCall(outcome)

SpecAuth == InitAuth /\ [][NextAuth]_vars

\* AuthProvider on its own: the session, the profile and the loading flag
NextProvider ==
    \/ \E sessionOf \in AuthUsers \cup {NoUser} : GetSessionResolves(sessionOf)
    \/ GetSessionRejects
    \/ \E event \in AuthEvents, newUser \in AuthUsers \cup {NoUser} :
           AuthStateChange(event, newUser)
    \/ \E userId \in AuthUsers, more \in BOOLEAN : ProfileTimerFires(userId, more)
    \/ \E userId \in AuthUsers, outcome \in FetchOutcomes, more \in BOOLEAN :
           FetchProfileSettles(userId, outcome, more)
    \/ RefreshProfileCall
    \/ \E outcome \in UpdateOutcomes : UpdateProfileCall(outcome)

SpecProvider == InitAuth /\ [][NextProvider]_vars

\* every backend call completes and every timer that was set fires
SpecProviderLive ==
    /\ SpecProvider
    /\ WF_vars(GetSessionRejects
               \/ \E sessionOf \in AuthUsers \cup {NoUser} :
                      GetSessionResolves(sessionOf))
    /\ \A userId \in AuthUsers :
           /\ WF_vars(\E more \in BOOLEAN : ProfileTimerFires(userId, more))
           /\ WF_vars(\E outcome \in FetchOutcomes, more \in BOOLEAN :
                          FetchProfileSettles(userId, outcome, more))

\* ------------------------------------------------------------- claims
\* reader.onload has just run: it is the only step that ends a read with
\* an alert
ImportStep == reading # <<>> /\ reading' = <<>> /\ alertMsg' # None

\* C1: an import applies as a single unit: after reader.onload either all
\* seven fields, in memory and in the store, hold the values of the bundle
\* that was read, or none of them changed; and the auto-save commit that
\* follows the import leaves all seven as they are, in memory and in the
\* store.
C1_ImportAtomic ==
    [][ /\ ImportStep =>
            \/ \E content \in Contents(reading[1]) :
                   Mem7' = Of7(content) /\ Store7' = Of7(content)
            \/ Mem7' = Mem7 /\ Store7' = Store7
        /\ (alertMsg = "imported" /\ alertMsg' = "imported") =>
               (Mem7' = Mem7 /\ Store7' = Mem7)
      ]_vars

\* an accepted foreign bundle is in memory and in the store after the commit
C1_Witness ==
    /\ alertMsg = "imported" /\ ~dirty
    /\ Mem7 = Of7(ForeignBundle) /\ Store7 = Of7(ForeignBundle)

\* C2: when the import is rejected, reader.onload changes no in-memory
\* field, no durable key, not the lastSaved marker and no pending save;
\* the failure alert is its only outcome.
C2_RejectedImportChangesNothing ==
    [][ (ImportStep /\ alertMsg' = "failed") =>
            UNCHANGED <<user, memVars, store, trackVars, dirty, pendingEffects>>
      ]_vars

\* a rejected import over a state that differs from the rejected bundle and
\* whose lastSaved marker is older than the store's
C2_Witness ==
    /\ alertMsg = "failed" /\ reading = <<>>
    /\ lastSaved = "stale"
    /\ terraformConfig = DefaultTerraformConfig

\* C3: round trip: importing the bundle that was just exported, with no
\* other handler in between, succeeds and leaves all seven fields as they
\* were before the export.
C3_ExportImportRoundTrip ==
    [][ (ImportStep /\ reading[1].file # <<>> /\ reading[1].age = 0) =>
            (alertMsg' = "imported" /\ Mem7' = Mem7)
      ]_vars

\* the exported bundle of an edited state has been imported again
C3_Witness ==
    /\ alertMsg = "imported"
    /\ terraformConfig = "prod-cluster" /\ k8sGithubConfig = DefaultK8sGitHubConfig
    /\ deploymentMode = "application" /\ activeInfraTab = "terraform"
    /\ activeAppTab = "k8s-config"

\* C4: a record's status is set at most once: no record of the log has
\* received more than one updateBasicDeploymentStatus call, and a record
\* that received one is success or failed.
C4_StatusUpdatedAtMostOnce ==
    \A i \in DOMAIN deployments :
        /\ deployments[i].updates <= 1
        /\ deployments[i].updates = 1 => deployments[i].status \in {"success", "failed"}

\* C5: while no deployment is open (currentDeploymentId is null) a step
\* changes no existing record, and any step that changes the log length
\* appends exactly one pending record and makes it the open deployment.
C5_NoRerecording ==
    [][ /\ currentDeploymentId = 0 =>
              SubSeq(deployments', 1, Len(deployments)) = deployments
        /\ Len(deployments') # Len(deployments) =>
              /\ Len(deployments') = Len(deployments) + 1
              /\ SubSeq(deployments', 1, Len(deployments)) = deployments
              /\ deployments'[Len(deployments')].status = "pending"
              /\ currentDeploymentId' = deployments'[Len(deployments')].id
      ]_vars

\* C6: a trigger that fails sets the deployment status to error and
\* creates no record: the log has the same length and the same ids after
\* the failure as before it.
C6_FailedTriggerCreatesNoRecord ==
    [][ (trigger = "inflight" /\ trigger' = "failed") =>
            /\ deploymentStatus' = "error"
            /\ Len(deployments') = Len(deployments)
            /\ \A i \in DOMAIN deployments : deployments'[i].id = deployments[i].id
      ]_vars

\* a trigger failed after an earlier deployment had been recorded and closed
C6_Witness ==
    /\ trigger = "failed" /\ deploymentStatus = "error"
    /\ Len(deployments) = 1 /\ deployments[1].status = "success"

\* C7: while the user is null no step changes a configuration, a tab, the
\* mode or the deployment log.
C7_NothingWithoutUser ==
    [][ user = NoUser =>
            (Mem7' = Mem7 /\ deployments' = deployments) ]_vars

\* C8: switching the deployment mode sets deploymentStatus to idle and
\* leaves both configs, both credential sets and both active tabs as they are.
C8_ModeSwitchFrame ==
    [][ (\E mode \in DeploymentModes : ModeSelectorChange(mode)) =>
            /\ deploymentStatus' = "idle"
            /\ UNCHANGED <<terraformConfig, k8sConfig, githubConfig, k8sGithubConfig,
                           activeInfraTab, activeAppTab>>
      ]_vars

\* the mode was just switched to application from a finished deployment at
\* the deploy step of an edited infrastructure configuration
C8_Witness ==
    /\ dirty /\ pendingEffects = {"deploymentMode"}
    /\ deploymentMode = "application" /\ mainTab = "application"
    /\ deploymentStatus = "idle"
    /\ activeInfraTab = "deploy" /\ activeAppTab = "k8s-github"
    /\ terraformConfig = "prod-cluster"

\* C9: whenever a wizard is visible it is the wizard of the current
\* deployment mode.
C9_VisibleWizardIsMode ==
    mainTab \in DeploymentModes => mainTab = deploymentMode

\* C10: the active tab of each wizard is one of that wizard's four steps.
C10_TabsValid ==
    activeInfraTab \in InfraTabs /\ activeAppTab \in AppTabs

\* a step of the wizard's own navigation: a sub-navigation tab click, onNext
\* or onBack
TabNavigation ==
    \/ \E tab \in InfraTabs \cup AppTabs : SubTabClick(tab)
    \/ OnNext
    \/ OnBack

\* the position of a tab in its wizard, 0 for an id the wizard does not have
Position(seq, x) ==
    IF \E i \in 1..Len(seq) : seq[i] = x THEN Index(seq, x) ELSE 0

Adjacent(seq, from, to) ==
    \/ from = to
    \/ Position(seq, to) = Position(seq, from) + 1
    \/ Position(seq, to) = Position(seq, from) - 1

\* C11: no step is skippable: every navigation step (tab click, onNext,
\* onBack) leaves the active tab of each wizard where it is or moves it to
\* the step right before or right after it.
C11_NoStepSkipped ==
    [][ TabNavigation =>
            /\ Adjacent(infraTabs, activeInfraTab, activeInfraTab')
            /\ Adjacent(appTabs, activeAppTab, activeAppTab')
      ]_vars

\* C12: a navigation step changes nothing but the active tab of the visible
\* wizard: the configs, the credential sets, the mode, the status, the open
\* deployment, the deployment log, the main tab and the other wizard's tab
\* stay as they are.
C12_NavigationFrame ==
    [][ TabNavigation =>
            /\ UNCHANGED <<terraformConfig, k8sConfig, githubConfig, k8sGithubConfig,
                           deploymentMode, deploymentStatus, currentDeploymentId,
                           deployments, mainTab>>
            /\ mainTab = "infrastructure" => activeAppTab' = activeAppTab
            /\ mainTab = "application" => activeInfraTab' = activeInfraTab
      ]_vars

\* the deploy step was just entered again from the github step, with an
\* edited configuration and the status of a finished deployment
C12_Witness ==
    /\ dirty /\ pendingEffects = {"activeTab"}
    /\ activeInfraTab = "deploy" /\ store["activeInfraTab"] = "github"
    /\ deploymentStatus = "success" /\ terraformConfig = "prod-cluster"
    /\ deployments = <<>>

\* C13: whenever no save effect is pending, what a reload would read from
\* the store is what is in memory, for all seven saved fields.
C13_SavedWhenNothingPending ==
    pendingEffects = {} => loadAppState(store) = Mem7

\* every field was edited, the edits are committed and in the store
C13_Witness ==
    /\ ~dirty /\ pendingEffects = {}
    /\ terraformConfig = "prod-cluster" /\ store["terraformConfig"] = "prod-cluster"
    /\ githubConfig = "acme/infra" /\ k8sConfig = "shop"
    /\ k8sGithubConfig = "acme/apps"
    /\ deploymentMode = "application" /\ store["deploymentMode"] = "application"
    /\ activeAppTab = "k8s-github" /\ store["activeAppTab"] = "k8s-github"

\* C14: a reload of a screen that shows a wizard shows the same wizard
\* at the same tabs.
C14_ReloadResumes ==
    [][ (Reload /\ user # NoUser /\ mainTab \in DeploymentModes) =>
            /\ mainTab' = mainTab
            /\ activeInfraTab' = activeInfraTab
            /\ activeAppTab' = activeAppTab
      ]_vars

\* C20: loading a saved configuration sets the config of its type, shows
\* that wizard at its first tab, schedules the save of the config and leaves
\* the other config, both credential sets, the other wizard's tab and the
\* status as they are; the commit that follows writes the loaded config to
\* the store.
C20_LoadReplacesOneConfig ==
    [][ /\ LoadSaved =>
            /\ \/ /\ terraformConfig' \in TerraformConfigs
                  /\ mainTab' = "infrastructure" /\ activeInfraTab' = "config"
                  /\ "terraformConfig" \in pendingEffects'
                  /\ UNCHANGED <<k8sConfig, activeAppTab>>
               \/ /\ k8sConfig' \in K8sConfigs
                  /\ mainTab' = "application" /\ activeAppTab' = "k8s-config"
                  /\ "k8sConfig" \in pendingEffects'
                  /\ UNCHANGED <<terraformConfig, activeInfraTab>>
            /\ UNCHANGED <<githubConfig, k8sGithubConfig, deploymentStatus>>
        /\ (dirty /\ ~dirty') =>
            /\ "terraformConfig" \in pendingEffects =>
                   loadAppState(store').terraformConfig = terraformConfig
            /\ "k8sConfig" \in pendingEffects =>
                   loadAppState(store').k8sConfig = k8sConfig
      ]_vars

\* a saved infrastructure configuration was just loaded from the
\* configurations tab, over a finished deployment and an edited application
\* wizard
C20_Witness ==
    /\ dirty /\ pendingEffects = {"terraformConfig", "activeTab"}
    /\ mainTab = "infrastructure" /\ activeInfraTab = "config"
    /\ terraformConfig = "prod-cluster"
    /\ deploymentStatus = "success"
    /\ k8sConfig = "shop" /\ activeAppTab = "k8s-deploy"

\* a step in which the workflow child reports a status through onStatusChange
Notification ==
    \/ TriggerClick
    \/ TriggerFails
    \/ \E status \in DeploymentStatuses : StatusNotify(status)

\* C19: a start appends a pending record named after the cluster
\* (infrastructure) or the namespace (application) and makes it the open
\* deployment; a success or error notification while a deployment is open
\* sets the status of exactly that record to success or failed and clears
\* the open deployment; an idle or deploying notification leaves the log and
\* the open deployment as they are.
C19_RecordedAndClosed ==
    [][ /\ Len(deployments') > Len(deployments) =>
            LET r == deployments'[Len(deployments')]
            IN /\ Len(deployments') = Len(deployments) + 1
               /\ r.status = "pending"
               /\ r.project_name = IF r.deployment_type = "infrastructure"
                                   THEN ClusterName(terraformConfig)
                                   ELSE Namespace(k8sConfig)
               /\ currentDeploymentId' = r.id
        /\ (Notification /\ deploymentStatus' \in {"success", "error"}
                /\ currentDeploymentId # 0) =>
            /\ deployments' = updateBasicDeploymentStatus(deployments,
                                  currentDeploymentId,
                                  IF deploymentStatus' = "success" THEN "success"
                                  ELSE "failed")
            /\ currentDeploymentId' = 0
        /\ (Notification /\ deploymentStatus' \in {"idle", "deploying"}) =>
            UNCHANGED <<deployments, currentDeploymentId>>
      ]_vars

\* C15: at most one auto-refresh interval is live; once the effect of a
\* switch-off has run no interval is live; and an interval only ever fires
\* while autoRefresh is on.
C15_OneLiveInterval ==
    [][ /\ Cardinality(liveIntervals') <= 1
        /\ (~autoRefresh' /\ ~effectDue') => liveIntervals' = {}
        /\ TimerFires => autoRefresh
      ]_vars

\* auto-refresh was switched on and off twice, an interval fired in between,
\* and nothing is live
C15_Witness ==
    /\ ~autoRefresh /\ ~monDirty
    /\ intervalsMade = 2 /\ timerLoads >= 1
    /\ liveIntervals = {} /\ refreshInterval = 0

\* C17: only a click with a complete githubConfig calls triggerWorkflow, and
\* once; a click with an incomplete one calls nothing, sets an error and
\* leaves workflowRunning alone; a rejected call sets an error, is not
\* repeated, leaves workflowUrl and the loaded state as they are and ends
\* with workflowRunning false, as does a call that resolves.
C17_PlanTriggeredOnce ==
    [][ /\ serviceCalls' # serviceCalls =>
              /\ RunPlanClick
              /\ monGithubConfig = CompleteGithub
              /\ serviceCalls' = serviceCalls + 1
              /\ Len(planCalls') = Len(planCalls) + 1
        /\ (RunPlanClick /\ monGithubConfig # CompleteGithub) =>
              /\ monError' # ""
              /\ UNCHANGED <<serviceCalls, planCalls, workflowRunning>>
        /\ PlanFails =>
              /\ monError' # ""
              /\ workflowRunning' = FALSE
              /\ Len(planCalls') = Len(planCalls) - 1
              /\ UNCHANGED <<workflowUrl, monState, lastUpdated, serviceCalls>>
        /\ PlanSucceeds => workflowRunning' = FALSE
      ]_vars

\* the only triggerWorkflow call made was rejected, over a state loaded
\* before
C17_Witness ==
    /\ monError = "Failed to trigger workflow" /\ ~workflowRunning
    /\ serviceCalls = 1 /\ planCalls = <<>>
    /\ monState = "loaded" /\ workflowUrl = <<>>

\* C16: no exception thrown by the tracker or by the store leaves a handler
\* or an effect of the controller.
C16_NothingEscapes ==
    ~uncaught

\* C18: signUp, signIn and updateProfile resolve to an object with an error
\* field whatever the backend does and never throw; handleSubmit ends with
\* loading false both when the provider call settles and when it returns
\* before calling the provider, with a non-empty error whenever it failed;
\* loading is true only while a provider call is awaited.
C18_AuthNeverCrashes ==
    [][ /\ lastResult' # lastResult =>
              /\ ~lastResult'[1].thrown
              /\ lastResult'[1].error # ""
        /\ (authCall # <<>> /\ authCall' = <<>>) =>
              /\ ~authLoading'
              /\ lastResult'[1].error # NoError => authError' # ""
        /\ (Submit /\ authCall' = <<>>) =>
              (~authLoading' /\ authError' # "")
        /\ authLoading' => authCall' # <<>>
      ]_vars

\* the backend threw during a sign-up and the modal shows the provider's
\* generic message
C18_Witness ==
    /\ modalOpen /\ modalMode = "signup" /\ ~authLoading /\ authCall = <<>>
    /\ authError = "An unexpected error occurred during signup"
    /\ lastResult = <<Resolved("An unexpected error occurred during signup")>>

\* C21: reset clears everything only on confirmation: a declined reset
\* changes no stored key and no field in memory; a confirmed reset leaves an
\* empty store and the default state after the reload; and after a confirmed
\* reset the "last saved" marker stays absent while the user has changed
\* nothing (the first render's effects are no user change).
C21_ResetOnlyOnConfirmation ==
    [][ /\ handleResetConfig(FALSE) => UNCHANGED <<memVars, store>>
        /\ handleResetConfig(TRUE) =>
              /\ store' = EmptyStore
              /\ Mem7' = loadAppState(EmptyStore)
              /\ mainTab' = "infrastructure" /\ deploymentStatus' = "idle"
              /\ lastSaved' = "null"
        /\ (store = EmptyStore /\ user # NoUser /\ Commit) =>
              /\ store'["lastSaved"] = Absent
              /\ lastSaved' = "null"
      ]_vars

\* C25: while the user is null nothing is written to the durable store: no
\* step taken with user = null changes any stored key, the first render of
\* AppContent included.
C25_NoWriteWithoutUser ==
    [][ user = NoUser => store' = store ]_vars

\* C22: a status update targets the record of the workflow that reported:
\* whenever a step changes a record of the log, that record belongs to the
\* deployment mode whose workflow child is mounted and delivered the
\* notification, never to the other mode.
C22_UpdateTargetsOwnRecord ==
    [][ \A i \in DOMAIN deployments :
            deployments'[i] # deployments[i] =>
                WorkflowMounted(deployments[i].deployment_type)
      ]_vars

\* C23: after ResourceMonitoring has unmounted no auto-refresh interval is
\* live and no interval calls loadSimulatedState any more, whether
\* autoRefresh was on or off when it unmounted.
C23_NoTimerAfterUnmount ==
    [][ /\ ~monMounted' => liveIntervals' = {}
        /\ ~monMounted => timerLoads' = timerLoads
      ]_vars

\* C24: in AuthProvider the profile belongs to the current user: with no
\* user there is no profile, and a profile that is set has the id of the
\* current user.
C24_ProfileOfCurrentUser ==
    /\ sessionUser = NoUser => profile = "null"
    /\ profile # "null" => profile = sessionUser

C27_OneMessage ==
    /\ [](authError = "" \/ authSuccess = "")
    /\ [][authLoading => (authCall' = authCall \/ authCall' = <<>>)]_vars

\* a sign-up answered without error after the user had switched the modal
\* to sign-in: the success message is shown alone
C27_Witness ==
    /\ modalOpen /\ modalMode = "signin" /\ ~authLoading
    /\ authSuccess = "Account created successfully" /\ authError = ""
    /\ lastResult = <<Resolved(NoError)>>

\* C28: while the modal shows a rate-limit error no submit starts and none
\* is in flight, and the only steps that change the error are switchMode
\* and the close, which clear it.
C28_RateLimitLock ==
    [][ isRateLimited =>
            /\ authCall = <<>> /\ authCall' = <<>>
            /\ authLoading' = authLoading
            /\ authError' # authError =>
                  /\ authError' = ""
                  /\ (\E newMode \in ModalModes : switchMode(newMode)) \/ CloseClick
      ]_vars

\* both rate-limit messages locked the modal: the provider's own one after
\* over_email_send_rate_limit, and a server message passed through as it is
C28_Witness ==
    /\ modalOpen /\ isRateLimited /\ ~authLoading /\ authCall = <<>>
    /\ lastResult = <<Resolved(authError)>>
    /\ \/ provider = "AuthModal.tsx"
          /\ authError = "Too many signup attempts. Please wait 60 seconds"
       \/ provider = "part_000"
          /\ authError = "you can only request this after 45 seconds"

\* the addresses signUp must turn away: not of the form x@y.z, or a listed
\* placeholder in any mix of upper and lower case
RejectedAddress(prov, mail) ==
    \/ mail \in {"ann@localhost"}
    \/ mail = "Test@Example.com"
    \/ prov = "AuthModal.tsx" /\ mail = "demo@example.com"

\* C29: sign-up input is turned away before any backend call: a sign-up
\* with a malformed or placeholder address (in any letter case) reaches no
\* backend and resolves to a validation message; a sign-up submit with a
\* blank full name sets 'Full name is required' and calls nothing; and
\* updateProfile without a user resolves to 'No user logged in' and starts
\* nothing.
C29_RejectedBeforeBackend ==
    [][ /\ (authCall = <<>> /\ authCall' # <<>> /\ authCall'[1].mode = "signup"
               /\ RejectedAddress(provider, authCall'[1].email)) =>
              ~authCall'[1].backend
        /\ (authCall # <<>> /\ authCall' = <<>> /\ ~authCall[1].backend) =>
              /\ lastResult'[1].error \in {"Please enter a valid email address",
                                           "Please use a real email address"}
              /\ authError' = lastResult'[1].error
        /\ (Submit /\ modalMode = "signup" /\ Trim(fullName) = "") =>
              /\ authError' = "Full name is required"
              /\ ~authLoading'
              /\ UNCHANGED <<authCall, lastResult>>
        /\ ((\E outcome \in UpdateOutcomes : UpdateProfileCall(outcome))
               /\ sessionUser = NoUser) =>
              /\ lastResult' = <<Resolved("No user logged in")>>
              /\ UNCHANGED fetches
      ]_vars

\* a sign-up with the placeholder address in mixed case was turned away by
\* the provider without a backend call
C29_Witness ==
    /\ modalOpen /\ modalMode = "signup" /\ email = "Test@Example.com"
    /\ Trim(fullName) # "" /\ authCall = <<>> /\ ~authLoading
    /\ authError = "Please use a real email address"
    /\ lastResult = <<Resolved("Please use a real email address")>>

\* C30: of all the ways a handleSubmit can end, only a sign-in without error
\* closes the modal, and then the form is empty, both messages are cleared
\* and the mode is the initial one; a failed sign-in, every sign-up outcome
\* and every reset leave the modal, its mode and the entered email, password
\* and full name as they are; switchMode changes nothing but the mode and
\* the two messages.
C30_OnlySignInCloses ==
    [][ /\ (authCall # <<>> /\ authCall' = <<>>) =>
              IF authCall[1].mode = "signin" /\ lastResult' = <<Resolved(NoError)>>
              THEN /\ ~modalOpen'
                   /\ email' = "" /\ password' = "" /\ fullName' = ""
                   /\ authError' = "" /\ authSuccess' = ""
                   /\ modalMode' = "signin"
              ELSE UNCHANGED <<modalOpen, modalMode, email, password, fullName>>
        /\ Submit => UNCHANGED <<modalOpen, modalMode, email, password, fullName>>
        /\ (\E newMode \in ModalModes : switchMode(newMode)) =>
              UNCHANGED <<modalOpen, email, password, fullName, authLoading,
                          authCall, lastResult>>
      ]_vars

\* a sign-in was refused: the modal is open in sign-in mode and still holds
\* the address and the password that were entered
C30_Witness ==
    /\ modalOpen /\ modalMode = "signin" /\ ~authLoading /\ authCall = <<>>
    /\ email = "ann@acme.io" /\ password = "secret1"
    /\ lastResult = <<Resolved("Invalid email or password")>>
    /\ authError = "Invalid email or password"

====
